---- MODULE Spec2Model ----
(***************************************************************************)
(* Model of the SpectraDownshift transform kernel                          *)
(* (Spectradownshift/processor.py, class AudioProcessor) together with the *)
(* part of the batch driver that feeds it (gui/app.py,                     *)
(* Worker.process_file: read a file, construct an AudioProcessor, call     *)
(* prepare or restore, write the result back).                             *)
(*                                                                         *)
(* Buffers are numpy arrays.  A buffer is modelled as a heap object        *)
(* (identity = index in `heap`) with its frame count `len`, its dtype and  *)
(* the derivation of its sample values (`content`, the sequence of         *)
(* numeric stages that produced the values).  Two buffers hold the same    *)
(* samples iff their len and content agree.                                *)
(*                                                                         *)
(* Rates and cutoffs are integers (original_sr : int, cutoff_freq : int),  *)
(* intermediate_sr = float(2 * cutoff_freq) is an integral float, so every *)
(* quotient the code forms is a rational p/q computed here exactly.  For   *)
(* the magnitudes of audio (p, q < 2^53, q < 2^31) the float64 quotient    *)
(* rounds to the same integer as the exact one.                            *)
(***************************************************************************)
EXTENDS Integers, Sequences, FiniteSets, TLC

VARIABLES scipy_loaded, soxr_loaded, scipy_strict, soxr_slack,
          heap, file, cutoff, proc, pc, ctor_exc, ret, hist,
          ui, found, worker, wpc, idx, emitted, started, written, raised,
          queue, log, start_enabled, stop_enabled, batches,
          default_profiles, disk, managers

(* The numeric backends that are installed *)
envvars == <<scipy_loaded, soxr_loaded, scipy_strict, soxr_slack>>

(* One AudioProcessor and the buffers around it *)
kvars == <<heap, file, cutoff, proc, pc, ctor_exc, ret, hist>>

(* MainWindow, its Worker and the signals queued between them *)
bvars == <<ui, found, worker, wpc, idx, emitted, started, written, raised,
           queue, log, start_enabled, stop_enabled, batches>>

(* The DEFAULT_PROFILES object, profiles.json and the ProfileManagers *)
cvars == <<default_profiles, disk, managers>>

vars == <<envvars, kvars, bvars, cvars>>

----------------------------------------------------------------------------
(* Bounds of the model *)

MaxLen == 3
MaxRate == 6
MaxCutoff == 3
MaxCalls == 2

(* Default number of filter passes (signature of _apply_zero_phase_filter) *)
DefaultPasses == 3

Engines == {"scipy", "soxr", "sinc"}
Ops == {"prepare", "restore"}
Rates == 3..MaxRate
Cutoffs == (0 - 1)..MaxCutoff

(* final_order = 8 * passes *)
final_order(passes) == 8 * passes

(* filtfilt pads the signal by 3 * max(len(a), len(b)) samples on each     *)
(* side; butter(final_order, ...) returns final_order + 1 coefficients.    *)
padlen(passes) == 3 * (final_order(passes) + 1)

(* Frame counts of the input file: short ones and one long enough for      *)
(* filtfilt to run.                                                        *)
Lens == (0..MaxLen) \cup {padlen(DefaultPasses) + 1}

----------------------------------------------------------------------------
(* Numeric helpers *)

Abs(x) == IF x < 0 THEN 0 - x ELSE x

(* floor(p / q) for q > 0 *)
Floor(p, q) == p \div q

(* int(np.round(p / q)) for q > 0: nearest integer, ties to the even one *)
np_round_floor(p, q) == Floor(p, q)
np_round(p, q) ==
    LET f == Floor(p, q)
        r == p - f * q
    IN  IF 2 * r < q THEN f
        ELSE IF 2 * r > q THEN f + 1
        ELSE IF f % 2 = 0 THEN f ELSE f + 1

(* self.intermediate_sr = float(cutoff_freq * 2) *)
intermediate_sr_shifted(cutoff_freq) == cutoff_freq + 2
intermediate_sr(cutoff_freq) == cutoff_freq * 2

----------------------------------------------------------------------------
(* Heap of numpy arrays *)

Buffer(len, dtype, content) == [len |-> len, dtype |-> dtype, content |-> content]

(* A freshly allocated array gets the next identity. *)
NewId(h) == Len(h) + 1
Alloc(h, buf) == Append(h, buf)

NoBuf == 0
NoExc == ""

NoVal == [len |-> 0, dtype |-> "", content |-> <<>>]

(* What one stage did: the array it was given and the array it returned    *)
(* (identity and samples at that moment), its arguments and its exception. *)
StageRec(stage, backend, inbuf, inval, outbuf, outval, in_sr, out_sr, cut, exc) ==
    [stage |-> stage, backend |-> backend, inbuf |-> inbuf, inval |-> inval,
     outbuf |-> outbuf, outval |-> outval,
     in_sr |-> in_sr, out_sr |-> out_sr, cutoff |-> cut, exc |-> exc]

StageOut(exc, out, h, rec) == [exc |-> exc, out |-> out, heap |-> h, rec |-> rec]

----------------------------------------------------------------------------
(* External numeric backends, as called by the kernel *)

(* scipy.signal.resample(data, num_samples, axis=0): an FFT resampler that *)
(* returns a new array of exactly num_samples frames.  A negative count is *)
(* rejected (negative dimensions); a zero count or an empty input is       *)
(* rejected or answered with an empty/zero array depending on the scipy    *)
(* build (scipy_strict).                                                   *)
scipy_resample(h, data, num_samples) ==
    IF num_samples < 0 THEN [exc |-> "LibraryError", out |-> NoBuf, heap |-> h]
    ELSE IF (num_samples = 0 \/ h[data].len = 0) /\ scipy_strict
         THEN [exc |-> "LibraryError", out |-> NoBuf, heap |-> h]
    ELSE [exc |-> NoExc, out |-> NewId(h),
          heap |-> Alloc(h, Buffer(num_samples, "float64",
                                   Append(h[data].content, "scipy_resample")))]

(* soxr.resample(data, in_sr, out_sr, quality='VHQ'): rejects rates that   *)
(* are not positive; otherwise returns a new array whose length the        *)
(* library determines: len * out_sr / in_sr rounded down or up, depending  *)
(* on the build (soxr_slack).                                              *)
soxr_resample(h, data, in_sr, out_sr) ==
    IF in_sr <= 0 \/ out_sr <= 0
    THEN [exc |-> "LibraryError", out |-> NoBuf, heap |-> h]
    ELSE LET p == h[data].len * out_sr
             f == Floor(p, in_sr)
             n == IF f * in_sr = p THEN f ELSE f + soxr_slack
         IN  [exc |-> NoExc, out |-> NewId(h),
              heap |-> Alloc(h, Buffer(n, "float64",
                                       Append(h[data].content, "soxr_resample")))]

(* b, a = butter(final_order, normal_cutoff, btype='low'); filtfilt(b, a,  *)
(* data, axis=0).  butter rejects a normalised cutoff outside (0, 1);      *)
(* filtfilt rejects an input that is not longer than its padding and       *)
(* otherwise returns a new array of the same length.                       *)
butter_filtfilt(h, data, cutoff_freq, sr, passes) ==
    IF cutoff_freq <= 0 \/ h[data].len <= padlen(passes)
    THEN [exc |-> "LibraryError", out |-> NoBuf, heap |-> h]
    ELSE [exc |-> NoExc, out |-> NewId(h),
          heap |-> Alloc(h, Buffer(h[data].len, "float64",
                                   Append(h[data].content, "filtfilt")))]

----------------------------------------------------------------------------
(* AudioProcessor *)

(* np.issubdtype(data.dtype, np.floating) on an ndarray *)
is_floating_any(dtype) == TRUE
is_floating(dtype) == dtype \in {"float32", "float64"}

(* if self.cutoff_freq >= nyquist, with nyquist = 0.5 * sr *)
at_or_above_nyquist_strict(cutoff_freq, sr) == 2 * cutoff_freq > sr
at_or_above_nyquist(cutoff_freq, sr) == 2 * cutoff_freq >= sr

(* return data *)
filter_noop_copy(h, data) == [out |-> NewId(h), heap |-> Alloc(h, h[data])]
filter_noop_return(h, data) == [out |-> data, heap |-> h]

(* _apply_zero_phase_filter(self, data, sr, passes) *)
_apply_zero_phase_filter(h, p, data, sr, passes) ==
    LET Rec(out, outval, e) ==
            StageRec("filter", "butter", data, h[data], out, outval, sr, sr, p.cutoff_freq, e)
    IN  IF ~scipy_loaded
        THEN StageOut("ImportError", NoBuf, h, Rec(NoBuf, NoVal, "ImportError"))
        ELSE IF at_or_above_nyquist(p.cutoff_freq, sr)
        THEN LET r == filter_noop_return(h, data)
             IN  StageOut(NoExc, r.out, r.heap, Rec(r.out, r.heap[r.out], NoExc))
        ELSE LET r == butter_filtfilt(h, data, p.cutoff_freq, sr, passes)
             IN  IF r.exc # NoExc
                 THEN StageOut(r.exc, NoBuf, h, Rec(NoBuf, NoVal, r.exc))
                 ELSE StageOut(NoExc, r.out, r.heap, Rec(r.out, r.heap[r.out], NoExc))

(* The if-chain of _resample: which backend serves an engine name *)
select_backend_default(engine) == IF engine = "soxr" THEN "soxr" ELSE "scipy"
select_backend(engine) ==
    IF engine = "scipy" THEN "scipy"
    ELSE IF engine = "soxr" THEN "soxr"
    ELSE "none"

(* num_samples = int(np.round(len(data) * out_sr / in_sr)), in_sr # 0 *)
num_samples(len, in_sr, out_sr) ==
    IF in_sr > 0 THEN np_round(len * out_sr, in_sr)
    ELSE np_round(0 - len * out_sr, 0 - in_sr)

(* _resample(self, data, in_sr, out_sr, engine) *)
_resample(h, data, in_sr, out_sr, engine) ==
    LET b == select_backend(engine)
        Rec(out, outval, e) ==
            StageRec("resample", b, data, h[data], out, outval, in_sr, out_sr, 0, e)
        Fail(e) == StageOut(e, NoBuf, h, Rec(NoBuf, NoVal, e))
        Done(r) == IF r.exc # NoExc THEN Fail(r.exc)
                   ELSE StageOut(NoExc, r.out, r.heap, Rec(r.out, r.heap[r.out], NoExc))
    IN  IF b = "scipy"
        THEN IF ~scipy_loaded THEN Fail("ImportError")
             ELSE IF in_sr = 0 THEN Fail("ZeroDivisionError")
             ELSE Done(scipy_resample(h, data, num_samples(h[data].len, in_sr, out_sr)))
        ELSE IF b = "soxr"
        THEN IF ~soxr_loaded THEN Fail("ImportError")
             ELSE Done(soxr_resample(h, data, in_sr, out_sr))
        ELSE Fail("ValueError")

(* The rates prepare declares to _resample: (intermediate_sr, original_sr) *)
prepare_rates_swapped(p) == [in_sr |-> p.original_sr, out_sr |-> p.intermediate_sr]
prepare_rates(p) == [in_sr |-> p.intermediate_sr, out_sr |-> p.original_sr]

(* The rates restore declares to _resample: (original_sr, intermediate_sr) *)
restore_rates(p) == [in_sr |-> p.original_sr, out_sr |-> p.intermediate_sr]

(* if resampler_engine == 'soxr': filter *)
needs_filter_always(engine) == TRUE
needs_filter(engine) == engine = "soxr"

(* final_sr = self.original_sr *)
restore_final_sr_intermediate(p) == p.intermediate_sr
restore_final_sr(p) == p.original_sr

CallOut(kind, data, sr, exc, stages, h) ==
    [kind |-> kind, data |-> data, sr |-> sr, exc |-> exc, stages |-> stages, heap |-> h]

(* prepare(self, resampler_engine) *)
prepare(h, p, engine) ==
    LET rt == prepare_rates(p)
        s1 == _resample(h, p.data, rt.in_sr, rt.out_sr, engine)
    IN  IF s1.exc # NoExc
        THEN CallOut("raise", NoBuf, 0, s1.exc, <<s1.rec>>, s1.heap)
        ELSE IF needs_filter(engine)
        THEN LET s2 == _apply_zero_phase_filter(s1.heap, p, s1.out, p.original_sr, DefaultPasses)
             IN  IF s2.exc # NoExc
                 THEN CallOut("raise", NoBuf, 0, s2.exc, <<s1.rec, s2.rec>>, s2.heap)
                 ELSE CallOut("ok", s2.out, p.original_sr, NoExc, <<s1.rec, s2.rec>>, s2.heap)
        ELSE CallOut("ok", s1.out, p.original_sr, NoExc, <<s1.rec>>, s1.heap)

(* speed_factor = final_sr / self.intermediate_sr raises ZeroDivisionError *)
(* when intermediate_sr is 0.0                                             *)
speed_factor_raises(p) == p.intermediate_sr = 0

(* restore(self, resampler_engine) *)
restore(h, p, engine) ==
    LET rt == restore_rates(p)
        s1 == _resample(h, p.data, rt.in_sr, rt.out_sr, engine)
    IN  IF s1.exc # NoExc
        THEN CallOut("raise", NoBuf, 0, s1.exc, <<s1.rec>>, s1.heap)
        ELSE IF speed_factor_raises(p)
        THEN CallOut("raise", NoBuf, 0, "ZeroDivisionError", <<s1.rec>>, s1.heap)
        ELSE CallOut("ok", s1.out, restore_final_sr(p), NoExc, <<s1.rec>>, s1.heap)

----------------------------------------------------------------------------
(* State machine: one input file driven through the kernel *)

(* No batch has been started: the window as MainWindow.__init__ leaves it *)
NoWorker == [exists |-> FALSE, files |-> <<>>, cutoff |-> 0, process_mode |-> "",
             resampler |-> "", is_running |-> FALSE]

BatchIdle ==
    /\ ui = [cutoff |-> 0, resampler |-> "", process_mode |-> "", input_mode |-> ""]
    /\ found = <<>>
    /\ worker = NoWorker
    /\ wpc = "none"
    /\ idx = 0
    /\ emitted = <<>>
    /\ started = {}
    /\ written = {}
    /\ raised = 0
    /\ queue = <<>>
    /\ log = <<>>
    /\ start_enabled = TRUE
    /\ stop_enabled = FALSE
    /\ batches = 0

(* "cutoff": 17000 of both built-in profiles *)
DefaultCutoff == 17000

(* DEFAULT_PROFILES as the module defines it *)
DEFAULT_PROFILES ==
    [n \in {"Accurate (Scipy)", "Fast (Soxr)"} |->
        IF n = "Accurate (Scipy)"
        THEN [resampler |-> "scipy", output_format |-> "wav", cutoff |-> DefaultCutoff]
        ELSE [resampler |-> "soxr", output_format |-> "flac", cutoff |-> DefaultCutoff]]

(* profiles.json, reduced to its "profiles" section *)
NoFile == [state |-> "missing", profiles |-> DEFAULT_PROFILES]

(* No ProfileManager has been constructed and profiles.json does not exist *)
ConfigIdle ==
    /\ default_profiles = DEFAULT_PROFILES
    /\ disk = NoFile
    /\ managers = <<>>

(* No AudioProcessor is being driven *)
KernelIdle ==
    /\ heap = <<>>
    /\ file = [data |-> 0, sr |-> 0]
    /\ cutoff = 0
    /\ proc = [alive |-> FALSE, id |-> 0, data |-> 0, original_sr |-> 0,
               cutoff_freq |-> 0, intermediate_sr |-> 0]
    /\ pc = "new"
    /\ ctor_exc = ""
    /\ ret = [kind |-> "none", op |-> "", engine |-> "", proc |-> 0, data |-> 0,
              sr |-> 0, exc |-> "", stages |-> <<>>,
              original_sr |-> 0, cutoff_freq |-> 0, intermediate_sr |-> 0]
    /\ hist = <<>>

Dtypes == {"float64", "int16", "list"}

NoProc == [alive |-> FALSE, id |-> 0, data |-> NoBuf, original_sr |-> 0,
           cutoff_freq |-> 0, intermediate_sr |-> 0]

NoRet == [kind |-> "none", op |-> "", engine |-> "", proc |-> 0, data |-> NoBuf,
          sr |-> 0, exc |-> NoExc, stages |-> <<>>,
          original_sr |-> 0, cutoff_freq |-> 0, intermediate_sr |-> 0]

(* if not isinstance(data, np.ndarray) or not np.issubdtype(...): raise *)
valid_data(dtype) == dtype # "list" /\ is_floating(dtype)

Init ==
    /\ scipy_loaded \in BOOLEAN
    /\ soxr_loaded \in BOOLEAN
    /\ scipy_strict \in BOOLEAN
    /\ soxr_slack \in {0, 1}
    /\ \E n \in Lens, d \in Dtypes :
          heap = <<Buffer(n, d, <<"src">>)>>
    /\ \E r \in Rates : file = [data |-> 1, sr |-> r]
    /\ cutoff \in Cutoffs
    /\ proc = NoProc
    /\ pc = "new"
    /\ ctor_exc = NoExc
    /\ ret = NoRet
    /\ hist = <<>>
    /\ BatchIdle
    /\ ConfigIdle

(* AudioProcessor.__init__(data, original_sr, cutoff_freq), as called by   *)
(* process_file on the file it has just read                               *)
Construct ==
    /\ pc = "new"
    /\ IF valid_data(heap[file.data].dtype)
       THEN /\ proc' = [alive |-> TRUE, id |-> Len(hist) + 1, data |-> file.data,
                        original_sr |-> file.sr, cutoff_freq |-> cutoff,
                        intermediate_sr |-> intermediate_sr(cutoff)]
            /\ pc' = "ready"
            /\ ctor_exc' = NoExc
       ELSE /\ proc' = NoProc
            /\ pc' = "rejected"
            /\ ctor_exc' = "TypeError"
    /\ ret' = NoRet
    /\ UNCHANGED <<scipy_loaded, soxr_loaded, scipy_strict, soxr_slack,
                   heap, file, cutoff, hist>>
    /\ UNCHANGED <<bvars, cvars>>

(* The outcome of one call, with the context fields as they are when the   *)
(* call returns                                                            *)
Record(op, engine, c) ==
    [kind |-> c.kind, op |-> op, engine |-> engine, proc |-> proc.id, data |-> c.data,
     sr |-> c.sr, exc |-> c.exc, stages |-> c.stages,
     original_sr |-> proc.original_sr, cutoff_freq |-> proc.cutoff_freq,
     intermediate_sr |-> proc.intermediate_sr]

Finish(op, engine, c) ==
    /\ heap' = c.heap
    /\ ret' = Record(op, engine, c)
    /\ hist' = Append(hist, Record(op, engine, c))
    /\ UNCHANGED <<scipy_loaded, soxr_loaded, scipy_strict, soxr_slack,
                   file, cutoff, proc, pc, ctor_exc>>
    /\ UNCHANGED <<bvars, cvars>>

(* proc.prepare(resampler_engine=engine) *)
Prepare(engine) ==
    /\ pc = "ready"
    /\ Len(hist) < MaxCalls
    /\ Finish("prepare", engine, prepare(heap, proc, engine))

(* proc.restore(resampler_engine=engine) *)
Restore(engine) ==
    /\ pc = "ready"
    /\ Len(hist) < MaxCalls
    /\ Finish("restore", engine, restore(heap, proc, engine))

(* proc._apply_zero_phase_filter(proc.data, proc.original_sr, passes) *)
ApplyFilter(passes) ==
    /\ pc = "ready"
    /\ Len(hist) < MaxCalls
    /\ LET s == _apply_zero_phase_filter(heap, proc, proc.data, proc.original_sr, passes)
       IN  Finish("filter", "", CallOut(IF s.exc = NoExc THEN "ok" ELSE "raise",
                                        s.out, proc.original_sr, s.exc, <<s.rec>>, s.heap))

(* The caller changes the returned array in place. *)
MutateOutput ==
    /\ ret.kind = "ok"
    /\ heap[ret.data].content[Len(heap[ret.data].content)] # "inplace"
    /\ heap' = [heap EXCEPT ![ret.data].content = Append(@, "inplace")]
    /\ UNCHANGED <<scipy_loaded, soxr_loaded, scipy_strict, soxr_slack,
                   file, cutoff, proc, pc, ctor_exc, ret, hist>>
    /\ UNCHANGED <<bvars, cvars>>

(* sf.write(output_filename, processed_data, final_sr, subtype='PCM_16');  *)
(* the written file is the input of a later process_file, which reads it   *)
(* with sf.read(file_path, dtype='float64').                               *)
Save ==
    /\ pc = "ready"
    /\ ret.kind = "ok"
    /\ ret.op \in Ops
    /\ Len(hist) < MaxCalls
    /\ heap' = Alloc(heap, Buffer(heap[ret.data].len, "float64",
                                  Append(heap[ret.data].content, "pcm16")))
    /\ file' = [data |-> NewId(heap), sr |-> ret.sr]
    /\ proc' = NoProc
    /\ pc' = "new"
    /\ ret' = NoRet
    /\ UNCHANGED <<scipy_loaded, soxr_loaded, scipy_strict, soxr_slack,
                   cutoff, ctor_exc, hist>>
    /\ UNCHANGED <<bvars, cvars>>

Next ==
    \/ Construct
    \/ \E e \in Engines : Prepare(e)
    \/ \E e \in Engines : Restore(e)
    \/ \E n \in {1, DefaultPasses} : ApplyFilter(n)
    \/ MutateOutput
    \/ Save

Spec == Init /\ [][Next]_vars

TypeOK ==
    /\ pc \in {"new", "ready", "rejected"}
    /\ Len(hist) <= MaxCalls
    /\ ret.kind \in {"none", "ok", "raise"}

----------------------------------------------------------------------------
(* Properties *)

Calls == 1..Len(hist)
KernelCalls == {i \in Calls : hist[i].op \in Ops}

(* The frame count a call was given and the frame count it returned *)
InLen(c) == c.stages[1].inval.len
OutLen(c) == c.stages[Len(c.stages)].outval.len

(* Call i + 1 is a restore of what the prepare call i returned: call i was *)
(* saved and read back into a new AudioProcessor with the same settings.   *)
RoundTrip(i) ==
    /\ i + 1 \in Calls
    /\ hist[i].op = "prepare" /\ hist[i].engine = "scipy"
    /\ hist[i + 1].op = "restore" /\ hist[i + 1].engine = "scipy"
    /\ hist[i + 1].proc # hist[i].proc
    /\ InLen(hist[i]) >= 1
    /\ hist[i].cutoff_freq > 0
    /\ 2 * hist[i].cutoff_freq < hist[i].original_sr

(* C1: for N >= 1, R > 0 and 0 < C < R/2, prepare with the scipy engine    *)
(* followed by restore with the scipy engine on prepare's output (same R,  *)
(* same C) returns a buffer whose length differs from N by at most 1; with *)
(* scipy loaded neither call fails.                                        *)
C1_RoundTripLength ==
    \A i \in Calls :
        /\ (hist[i].op = "prepare" /\ hist[i].engine = "scipy" /\ scipy_loaded
            /\ InLen(hist[i]) >= 1 /\ hist[i].cutoff_freq > 0
            /\ 2 * hist[i].cutoff_freq < hist[i].original_sr)
           => hist[i].kind = "ok"
        /\ RoundTrip(i) =>
             /\ hist[i + 1].kind = "ok"
             /\ hist[i + 1].original_sr = hist[i].original_sr
             /\ InLen(hist[i + 1]) = OutLen(hist[i])
             /\ Abs(OutLen(hist[i + 1]) - InLen(hist[i])) <= 1

C1_Witness ==
    \E i \in Calls :
        /\ RoundTrip(i)
        /\ hist[i + 1].kind = "ok"
        /\ OutLen(hist[i]) > InLen(hist[i]) + 1
        /\ OutLen(hist[i + 1]) = InLen(hist[i])

(* A successful resampling stage served by scipy *)
ScipyStages(c) ==
    {k \in 1..Len(c.stages) :
        c.stages[k].stage = "resample" /\ c.stages[k].backend = "scipy"
        /\ c.stages[k].exc = NoExc}

(* L is N * dest / source rounded to the nearest integer, a tie going to   *)
(* the even neighbour (numpy's and Python's round).                        *)
IsRounded(L, N, dest, source) ==
    /\ 2 * Abs(L * source - N * dest) <= source
    /\ 2 * Abs(L * source - N * dest) = source => L % 2 = 0

(* C2: with the scipy engine and C > 0 the resampled buffer has exactly    *)
(* round(N * destRate / sourceRate) samples; prepare declares sourceRate   *)
(* 2C and destRate R, restore declares sourceRate R and destRate 2C.       *)
C2_LengthLaw ==
    \A i \in KernelCalls : \A k \in ScipyStages(hist[i]) :
        LET c == hist[i]
            st == c.stages[k]
        IN  c.cutoff_freq > 0 =>
              /\ c.op = "prepare" =>
                   IsRounded(st.outval.len, st.inval.len, c.original_sr, 2 * c.cutoff_freq)
              /\ c.op = "restore" =>
                   IsRounded(st.outval.len, st.inval.len, 2 * c.cutoff_freq, c.original_sr)
              /\ c.kind = "ok" /\ OutLen(c) = st.outval.len

(* A prepare whose quotient N * R / (2C) is an exact tie *)
C2_Witness ==
    \E i \in KernelCalls : \E k \in ScipyStages(hist[i]) :
        LET c == hist[i]
            st == c.stages[k]
        IN  /\ c.cutoff_freq > 0 /\ c.op = "prepare"
            /\ 2 * Abs(st.outval.len * 2 * c.cutoff_freq - st.inval.len * c.original_sr)
                 = 2 * c.cutoff_freq
            /\ st.outval.len > st.inval.len

(* C3: the rate returned with the buffer is the original rate R for        *)
(* prepare and for restore, whatever the engine and the cutoff; restore    *)
(* does not return the intermediate rate 2C.                               *)
C3_ReturnedRateIsOriginal ==
    \A i \in KernelCalls :
        hist[i].kind = "ok" => hist[i].sr = hist[i].original_sr

C3_Witness ==
    \E i \in KernelCalls :
        /\ hist[i].kind = "ok" /\ hist[i].op = "restore"
        /\ hist[i].stages[1].out_sr = hist[i].intermediate_sr
        /\ hist[i].intermediate_sr # hist[i].original_sr
        /\ hist[i].sr = hist[i].original_sr

FilterStages(c) == {k \in 1..Len(c.stages) : c.stages[k].stage = "filter"}

(* C4: prepare enters the filter exactly when the engine is soxr and the   *)
(* resampling step has returned; the filter then runs second, on the       *)
(* resampled buffer, at rate R with cutoff C.  prepare with scipy and      *)
(* restore with any engine never enter the filter.                         *)
C4_FilterOnlyForSoxrPrepare ==
    \A i \in KernelCalls :
        LET c == hist[i]
        IN  /\ FilterStages(c) # {} <=>
                 (c.op = "prepare" /\ c.engine = "soxr" /\ c.stages[1].exc = NoExc)
            /\ \A k \in FilterStages(c) :
                 /\ k = 2 /\ Len(c.stages) = 2
                 /\ c.stages[1].stage = "resample"
                 /\ c.stages[2].inbuf = c.stages[1].outbuf
                 /\ c.stages[2].in_sr = c.original_sr
                 /\ c.stages[2].cutoff = c.cutoff_freq

C4_Witness ==
    \E i \in KernelCalls :
        /\ hist[i].op = "prepare" /\ hist[i].engine = "soxr" /\ hist[i].kind = "ok"
        /\ FilterStages(hist[i]) = {2}
        /\ hist[i].stages[2].outbuf # hist[i].stages[2].inbuf

AllStages == {<<i, k>> \in Calls \X (1..2) : k <= Len(hist[i].stages)}
StageAt(ik) == hist[ik[1]].stages[ik[2]]

(* Filter stages called with the cutoff at or above half the sample rate *)
NoopFilterStages ==
    {ik \in AllStages :
        StageAt(ik).stage = "filter" /\ 2 * StageAt(ik).cutoff >= StageAt(ik).in_sr}

(* C5 as stated: whenever cutoff >= sampleRate / 2 the filter does not     *)
(* fail and returns its input with every sample unchanged.                 *)
C5_Original ==
    \A ik \in NoopFilterStages :
        StageAt(ik).exc = NoExc /\ StageAt(ik).outval = StageAt(ik).inval

(* C5: whenever cutoff >= sampleRate / 2 (equality included) and the scipy *)
(* filter primitives are loaded, the filter returns the very buffer it was *)
(* given with every sample unchanged; when they are not loaded the call    *)
(* raises ImportError in this case too, before the cutoff is looked at.    *)
C5_FilterNoop ==
    \A ik \in NoopFilterStages :
        LET st == StageAt(ik)
        IN  /\ scipy_loaded =>
                 st.exc = NoExc /\ st.outbuf = st.inbuf /\ st.outval = st.inval
            /\ ~scipy_loaded =>
                 st.exc = "ImportError" /\ st.outbuf = NoBuf

C5_Witness ==
    \E ik \in NoopFilterStages :
        /\ 2 * StageAt(ik).cutoff = StageAt(ik).in_sr
        /\ StageAt(ik).exc = NoExc
        /\ StageAt(ik).inval.len > padlen(DefaultPasses)
        /\ StageAt(ik).outval = StageAt(ik).inval

(* Names of the spec's error taxonomy for the exceptions the kernel raises *)
InvalidInput == "TypeError"
EngineUnavailable == "ImportError"
UnsupportedEngine == "ValueError"
InvalidCutoff == "InvalidCutoff"

(* The backend an engine name stands for is loaded *)
EngineLoaded(engine) ==
    \/ engine = "scipy" /\ scipy_loaded
    \/ engine = "soxr" /\ soxr_loaded

(* C6: prepare and restore fail with InvalidCutoff whenever C <= 0, for    *)
(* every engine and buffer, and produce no output buffer.  Stated for the  *)
(* calls no other error of the taxonomy applies to: a non-empty buffer and *)
(* a known engine whose backend is loaded.  (No raise of the kernel        *)
(* depends on the cutoff: with C = 0 such a call dies of the               *)
(* ZeroDivisionError of the rate arithmetic, a negative C reaches the      *)
(* resampler backend.)                                                     *)
C6_Original ==
    \A i \in KernelCalls :
        (hist[i].cutoff_freq <= 0 /\ EngineLoaded(hist[i].engine) /\ InLen(hist[i]) >= 1) =>
            hist[i].kind = "raise" /\ hist[i].exc = InvalidCutoff /\ hist[i].data = NoBuf

Floating(v) == v.dtype \in {"float32", "float64"}

ResampleTag(engine) == IF engine = "scipy" THEN "scipy_resample" ELSE "soxr_resample"

(* C8: a call naming an engine whose backend is not loaded fails with      *)
(* ImportError (EngineUnavailable); a call naming anything but scipy or    *)
(* soxr fails with ValueError (UnsupportedEngine) whatever is loaded; a    *)
(* successful result was resampled by the engine requested.                *)
C8_EngineSelection ==
    \A i \in KernelCalls :
        LET c == hist[i]
            s1 == c.stages[1]
        IN  /\ (c.engine = "scipy" /\ ~scipy_loaded) =>
                 c.kind = "raise" /\ c.exc = EngineUnavailable /\ Len(c.stages) = 1
            /\ (c.engine = "soxr" /\ ~soxr_loaded) =>
                 c.kind = "raise" /\ c.exc = EngineUnavailable /\ Len(c.stages) = 1
            /\ c.engine \notin {"scipy", "soxr"} =>
                 c.kind = "raise" /\ c.exc = UnsupportedEngine /\ Len(c.stages) = 1
            /\ c.kind = "ok" =>
                 /\ c.engine \in {"scipy", "soxr"}
                 /\ s1.backend = c.engine
                 /\ s1.outval.content = Append(s1.inval.content, ResampleTag(c.engine))

(* The requested backend is missing while the other one is loaded *)
C8_Witness ==
    \E i \in KernelCalls :
        /\ hist[i].engine = "scipy" /\ ~scipy_loaded /\ soxr_loaded
        /\ hist[i].kind = "raise" /\ hist[i].exc = "ImportError"

(* Two calls of the same operation with the same engine on one processor *)
Repeated(i, j) ==
    /\ i < j
    /\ hist[i].proc = hist[j].proc
    /\ hist[i].op = hist[j].op
    /\ hist[i].engine = hist[j].engine

(* A step in which prepare or restore runs *)
KernelStep ==
    /\ Len(hist') = Len(hist) + 1
    /\ hist'[Len(hist')].op \in Ops

ContextConsistent ==
    /\ proc.alive =>
          /\ proc.intermediate_sr = 2 * proc.cutoff_freq
          /\ proc.cutoff_freq = cutoff
          /\ proc.original_sr = file.sr
          /\ proc.data = file.data
    /\ \A i \in KernelCalls :
          /\ hist[i].intermediate_sr = 2 * hist[i].cutoff_freq
          /\ hist[i].op = "prepare" => hist[i].stages[1].in_sr = 2 * hist[i].cutoff_freq
          /\ hist[i].op = "restore" => hist[i].stages[1].out_sr = 2 * hist[i].cutoff_freq
          /\ \A k \in FilterStages(hist[i]) :
                hist[i].stages[1].in_sr = 2 * hist[i].stages[k].cutoff
    /\ \A i, j \in KernelCalls :
          Repeated(i, j) =>
              /\ hist[j].kind = hist[i].kind
              /\ hist[j].exc = hist[i].exc
              /\ hist[j].sr = hist[i].sr
              /\ OutLen(hist[j]) = OutLen(hist[i])
              /\ hist[j].original_sr = hist[i].original_sr
              /\ hist[j].cutoff_freq = hist[i].cutoff_freq

(* C9: the context is read-only.  I = 2 * C in every state; a prepare or   *)
(* restore call, successful or failing, leaves the input buffer, R, C and  *)
(* I as they were; the rate given to the resampler is twice the cutoff     *)
(* given to the filter; repeating a call gives the same outcome.           *)
C9_ContextReadOnly ==
    /\ []ContextConsistent
    /\ [][KernelStep =>
            /\ proc' = proc
            /\ proc.alive
            /\ heap'[proc.data] = heap[proc.data]]_vars

(* The same call made twice on one processor, both times successfully *)
C9_Witness ==
    \E i, j \in KernelCalls :
        /\ Repeated(i, j)
        /\ hist[i].kind = "ok" /\ hist[j].kind = "ok"
        /\ hist[i].data # hist[j].data
        /\ proc.alive /\ proc.id = hist[i].proc

SuccessfulStages == {ik \in AllStages : StageAt(ik).exc = NoExc}

(* C10 as stated: every stage returns an object distinct from the one it   *)
(* was given, so changing a returned buffer never changes the input of the *)
(* call that returned it.                                                  *)
C10_Original ==
    /\ \A ik \in SuccessfulStages : StageAt(ik).outbuf # StageAt(ik).inbuf
    /\ ret.kind = "ok" => heap[ret.stages[1].inbuf] = ret.stages[1].inval

(* C10: resample, prepare and restore return a newly allocated buffer,     *)
(* distinct from the one they were given, so changing what prepare or      *)
(* restore returned never changes their input.  The filter returns a new   *)
(* buffer except when cutoff >= sampleRate / 2: then it returns the very   *)
(* object it was given.                                                    *)
C10_NoAliasingExceptNoopFilter ==
    /\ \A ik \in SuccessfulStages :
          LET st == StageAt(ik)
          IN  /\ st.outbuf = st.inbuf <=>
                   (st.stage = "filter" /\ 2 * st.cutoff >= st.in_sr)
              /\ st.outbuf # st.inbuf => st.outbuf > st.inbuf
    /\ \A i \in KernelCalls :
          hist[i].kind = "ok" =>
              /\ hist[i].data # hist[i].stages[1].inbuf
              /\ hist[i].data = hist[i].stages[Len(hist[i].stages)].outbuf
    /\ (ret.kind = "ok" /\ ret.op \in Ops) =>
          heap[ret.stages[1].inbuf] = ret.stages[1].inval

(* prepare returned the buffer its no-op filter was given; the caller has  *)
(* changed it in place and the input of prepare is untouched.              *)
C10_Witness ==
    /\ ret.kind = "ok" /\ ret.op = "prepare"
    /\ Len(ret.stages) = 2
    /\ ret.stages[2].outbuf = ret.stages[2].inbuf
    /\ heap[ret.data] # ret.stages[2].outval
    /\ heap[ret.stages[1].inbuf] = ret.stages[1].inval

----------------------------------------------------------------------------
(* Batch driver: MainWindow, its Worker thread and the queued signals *)

MaxFiles == 2
MaxBatches == 2

(* Frame counts of the audio files found on disk *)
FileLens == {0, MaxLen}

SeqsUpTo(S, n) == UNION {[1..k -> S] : k \in 1..n}

(* The worker's signals, in the order it emitted them: the progress_update *)
(* messages by kind, and "finished" for the finished signal.               *)
OutcomeMsgs == {"success", "stopped", "critical"}

(* data, sr = sf.read(file_path, dtype='float64');                         *)
(* proc = AudioProcessor(data, sr, self.settings['cutoff']);               *)
(* proc.prepare(...) or proc.restore(...), by self.settings['process_mode'] *)
process_file_call(w, f) ==
    LET h == <<Buffer(f.len, "float64", <<"src">>)>>
        p == [alive |-> TRUE, id |-> 1, data |-> 1, original_sr |-> f.sr,
              cutoff_freq |-> w.cutoff, intermediate_sr |-> intermediate_sr(w.cutoff)]
    IN  IF w.process_mode = "prepare"
        THEN prepare(h, p, w.resampler)
        ELSE restore(h, p, w.resampler)

(* if not self._is_running *)
should_stop_never(is_running) == FALSE
should_stop(is_running) == ~is_running

(* for ... else: the else clause runs when the loop was not left by break *)
for_else_runs_always(broke) == TRUE
for_else_runs(broke) == ~broke

(* set_ui_state(self, processing) *)
set_ui_state(processing, lg) ==
    [start_enabled |-> ~processing,
     stop_enabled |-> processing,
     log |-> IF ~processing THEN <<>> ELSE lg]

(* append_log(self, text) *)
append_log(lg, text) == Append(lg, text)

BatchInit ==
    /\ scipy_loaded \in BOOLEAN
    /\ soxr_loaded \in BOOLEAN
    /\ scipy_strict = TRUE
    /\ soxr_slack = 0
    /\ KernelIdle
    /\ ConfigIdle
    /\ ui \in [cutoff : 1..MaxCutoff, resampler : {"scipy", "soxr"},
               process_mode : Ops, input_mode : {"file", "folder"}]
    /\ found \in SeqsUpTo([len : FileLens, sr : {MaxRate}], MaxFiles)
    /\ ui.input_mode = "file" => Len(found) = 1
    /\ worker = NoWorker
    /\ wpc = "none"
    /\ idx = 0
    /\ emitted = <<>>
    /\ started = {}
    /\ written = {}
    /\ raised = 0
    /\ queue = <<>>
    /\ log = <<>>
    /\ start_enabled = TRUE
    /\ stop_enabled = FALSE
    /\ batches = 0

(* MainWindow.start_processing, on a click of the enabled Start button,    *)
(* with inputs that pass _collect_and_validate_inputs                      *)
StartProcessing ==
    /\ start_enabled
    /\ batches < MaxBatches
    /\ found # <<>>
    /\ ui.cutoff > 0
    /\ worker' = [exists |-> TRUE, files |-> found, cutoff |-> ui.cutoff,
                  process_mode |-> ui.process_mode, resampler |-> ui.resampler,
                  is_running |-> TRUE]
    /\ wpc' = "loop"
    /\ idx' = 1
    /\ emitted' = <<>>
    /\ started' = {}
    /\ written' = {}
    /\ raised' = 0
    /\ LET lg == IF ui.input_mode = "folder" THEN append_log(log, "found") ELSE log
           st == set_ui_state(TRUE, lg)
       IN  /\ start_enabled' = st.start_enabled
           /\ stop_enabled' = st.stop_enabled
           /\ log' = st.log
    /\ batches' = batches + 1
    /\ UNCHANGED <<envvars, kvars, cvars, ui, found, queue>>

(* MainWindow.stop_processing, on a click of the enabled Stop button;      *)
(* Worker.stop is called directly from the GUI thread.                     *)
StopProcessing ==
    /\ stop_enabled
    /\ IF worker.exists
       THEN /\ worker' = [worker EXCEPT !.is_running = FALSE]
            /\ log' = append_log(log, "stop_signal")
       ELSE UNCHANGED <<worker, log>>
    /\ stop_enabled' = FALSE
    /\ UNCHANGED <<envvars, kvars, cvars, ui, found, wpc, idx, emitted, started,
                   written, raised, queue, start_enabled, batches>>

(* The GUI event loop delivers the oldest queued signal of the worker:     *)
(* progress_update to append_log, finished to processing_finished.         *)
Deliver ==
    /\ queue # <<>>
    /\ queue' = Tail(queue)
    /\ IF Head(queue) = "finished"
       THEN LET st == set_ui_state(FALSE, log)
            IN  /\ start_enabled' = st.start_enabled
                /\ stop_enabled' = st.stop_enabled
                /\ log' = st.log
       ELSE /\ log' = append_log(log, Head(queue))
            /\ UNCHANGED <<start_enabled, stop_enabled>>
    /\ UNCHANGED <<envvars, kvars, cvars, ui, found, worker, wpc, idx, emitted,
                   started, written, raised, batches>>

Emit(msgs) ==
    /\ emitted' = emitted \o msgs
    /\ queue' = queue \o msgs

(* Worker.run, one pass through the head of the for loop: the loop ends,   *)
(* or the flag is read and the next file is begun (process_file emits      *)
(* "Processing: ...") or the loop is left by break.                        *)
LoopStep ==
    /\ wpc = "loop"
    /\ IF idx > Len(worker.files)
       THEN /\ Emit(IF for_else_runs(FALSE) THEN <<"success">> ELSE <<>>)
            /\ wpc' = "finally"
            /\ UNCHANGED started
       ELSE IF should_stop(worker.is_running)
       THEN /\ Emit(<<"stopped">> \o (IF for_else_runs(TRUE) THEN <<"success">> ELSE <<>>))
            /\ wpc' = "finally"
            /\ UNCHANGED started
       ELSE /\ Emit(<<"header", "processing">>)
            /\ wpc' = "file"
            /\ started' = started \cup {idx}
    /\ UNCHANGED <<envvars, kvars, cvars, ui, found, worker, idx, written, raised,
                   log, start_enabled, stop_enabled, batches>>

(* Worker.process_file, from sf.read to the end: the file is written and   *)
(* "Saved" is emitted, or an exception leaves the loop for the except      *)
(* clause of run.                                                          *)
EndFile ==
    /\ wpc = "file"
    /\ IF process_file_call(worker, worker.files[idx]).kind = "ok"
       THEN /\ written' = written \cup {idx}
            /\ Emit(<<"saved">>)
            /\ idx' = idx + 1
            /\ wpc' = "loop"
            /\ UNCHANGED raised
       ELSE /\ raised' = idx
            /\ Emit(<<"critical">>)
            /\ wpc' = "finally"
            /\ UNCHANGED <<written, idx>>
    /\ UNCHANGED <<envvars, kvars, cvars, ui, found, worker, started,
                   log, start_enabled, stop_enabled, batches>>

(* finally: self.finished.emit() *)
Finally ==
    /\ wpc = "finally"
    /\ Emit(<<"finished">>)
    /\ wpc' = "done"
    /\ UNCHANGED <<envvars, kvars, cvars, ui, found, worker, idx, started, written,
                   raised, log, start_enabled, stop_enabled, batches>>

BatchNext ==
    \/ StartProcessing
    \/ StopProcessing
    \/ Deliver
    \/ LoopStep
    \/ EndFile
    \/ Finally

BatchSpec == BatchInit /\ [][BatchNext]_vars

----------------------------------------------------------------------------
(* Properties of the batch driver *)

RangeOf(seq) == {seq[k] : k \in 1..Len(seq)}
CountIn(seq, S) == Cardinality({k \in 1..Len(seq) : seq[k] \in S})

(* The worker has read the stop flag as set *)
StopObserved == "stopped" \in RangeOf(emitted)

(* Every file the worker began has been written, or raised itself *)
BegunFilesSettled ==
    /\ \A i \in started : i \in written \/ i = raised
    /\ \A i \in started : \A j \in 1..i : j \in started

(* C11 as stated: the flag is read only between files, and under every     *)
(* interleaving of stop() with run() a file already in progress is always  *)
(* completed and written; once the flag has been read as set no further    *)
(* file is begun.  Here: after stop() was called, every file the ended     *)
(* loop had begun has been written.                                        *)
C11_Original ==
    /\ StopObserved => ~worker.is_running /\ wpc \in {"finally", "done"}
    /\ (~worker.is_running /\ wpc \in {"finally", "done"}) => started \subseteq written

(* C11: the worker reads the stop flag only at the head of the loop,       *)
(* before each file.  Under every interleaving of stop() with run(): no    *)
(* file is begun once the flag has been read as set (a file is begun only  *)
(* by a loop head that reads the flag as unset); setting the flag while a  *)
(* file is in progress changes nothing of that file, which is written      *)
(* exactly when its own processing does not raise; the flag, once set, is  *)
(* not reset for the rest of the run.                                      *)
C11_StopOnlyBetweenFiles ==
    /\ [](/\ StopObserved => ~worker.is_running /\ wpc \in {"finally", "done"}
          /\ wpc = "done" => BegunFilesSettled
          /\ written \subseteq started)
    /\ [][/\ (batches' = batches /\ ~worker.is_running) => ~worker'.is_running
          /\ (batches' = batches /\ started' # started) =>
                /\ worker.is_running
                /\ ~StopObserved
                /\ wpc = "loop" /\ wpc' = "file"
          /\ (batches' = batches /\ StopObserved) => started' = started
          /\ (wpc = "file" /\ wpc' # "file") =>
                /\ idx \in written' <=>
                     process_file_call(worker, worker.files[idx]).kind = "ok"
                /\ idx \in written' \/ raised' = idx
          /\ (worker'.is_running # worker.is_running /\ batches' = batches) =>
                /\ wpc' = wpc /\ idx' = idx
                /\ started' = started /\ written' = written
                /\ emitted' = emitted]_vars

(* The flag was set while the first file was in progress or just after it: *)
(* that file is written, the next one is never begun.                      *)
C11_Witness ==
    /\ wpc = "done"
    /\ StopObserved
    /\ started = {1}
    /\ written = {1}
    /\ Len(worker.files) = 2

(* C12: every run of Worker.run emits exactly one outcome message and then *)
(* the finished signal, once, as its last emission.  The message is        *)
(* "success" only if every file was written, "stopped" only if the flag    *)
(* was read as set before some file, "critical" only if a file raised, and *)
(* then no later file was begun.                                           *)
C12_OneOutcomeThenFinished ==
    /\ CountIn(emitted, OutcomeMsgs) <= 1
    /\ CountIn(emitted, {"finished"}) <= 1
    /\ wpc \in {"loop", "file"} => CountIn(emitted, OutcomeMsgs \cup {"finished"}) = 0
    /\ wpc = "finally" =>
          /\ CountIn(emitted, OutcomeMsgs) = 1
          /\ emitted[Len(emitted)] \in OutcomeMsgs
    /\ wpc = "done" =>
          /\ Len(emitted) >= 2
          /\ emitted[Len(emitted)] = "finished"
          /\ emitted[Len(emitted) - 1] \in OutcomeMsgs
          /\ CountIn(emitted, OutcomeMsgs) = 1
          /\ CountIn(emitted, {"finished"}) = 1
    /\ "success" \in RangeOf(emitted) =>
          /\ written = 1..Len(worker.files)
          /\ raised = 0
    /\ "stopped" \in RangeOf(emitted) =>
          /\ ~worker.is_running
          /\ raised = 0
          /\ started # 1..Len(worker.files)
          /\ written = started
    /\ "critical" \in RangeOf(emitted) =>
          /\ raised \in started
          /\ raised \notin written
          /\ started = 1..raised
    /\ raised # 0 => wpc \in {"finally", "done"} /\ "critical" \in RangeOf(emitted)

(* A run that wrote its first file and ended on an error of the second *)
C12_Witness ==
    /\ wpc = "done"
    /\ emitted[Len(emitted)] = "finished"
    /\ emitted[Len(emitted) - 1] = "critical"
    /\ written = {1}
    /\ raised = 2

(* The batch has ended and processing_finished has run *)
BatchOver == wpc = "done" /\ queue = <<>>

(* C14: set_ui_state changes only the enabled state of the Start and Stop  *)
(* buttons and leaves the log text unchanged, so after a batch ends and    *)
(* processing_finished has run, the messages the worker emitted during     *)
(* that run, its outcome message included, are still in the log.           *)
C14_Original ==
    BatchOver =>
        /\ start_enabled /\ ~stop_enabled
        /\ \A k \in 1..Len(emitted) :
              emitted[k] # "finished" => emitted[k] \in RangeOf(log)

----------------------------------------------------------------------------
(* Configuration: ProfileManager, profiles.json, the DEFAULT_PROFILES dict *)

MaxManagers == 2

(* Names given to save_profile, and names that can be deleted *)
NewNames == {"Custom"}
ProfileNames == DOMAIN DEFAULT_PROFILES \cup NewNames

(* The settings dict MainWindow.save_profile builds from the widgets *)
UserSettings == {[resampler |-> "soxr", output_format |-> "wav", cutoff |-> MaxCutoff]}

(* d[k] = v and del d[k] on a dict *)
DictPut(d, k, v) == [x \in DOMAIN d \cup {k} |-> IF x = k THEN v ELSE d[x]]
DictDel(d, k) == [x \in DOMAIN d \ {k} |-> d[x]]

(* config_data["profiles"] of a manager: the DEFAULT_PROFILES object       *)
(* itself when the manager created the default config, the dict json.load  *)
(* built otherwise.                                                        *)
get_profiles(m) == IF m.ref = "DEFAULT_PROFILES" THEN default_profiles ELSE m.own

(* json.dump(data, f): the file holds the value the dict has now *)
_write_to_file(profiles) == [state |-> "valid", profiles |-> profiles]

ConfigInit ==
    /\ scipy_loaded = TRUE
    /\ soxr_loaded = TRUE
    /\ scipy_strict = TRUE
    /\ soxr_slack = 0
    /\ KernelIdle
    /\ BatchIdle
    /\ default_profiles = DEFAULT_PROFILES
    /\ disk \in {NoFile,
                 [NoFile EXCEPT !.state = "corrupt"],
                 _write_to_file(DEFAULT_PROFILES),
                 _write_to_file(DictPut(DEFAULT_PROFILES, "Custom",
                                        CHOOSE u \in UserSettings : TRUE))}
    /\ managers = <<>>

(* ProfileManager.__init__: _load_or_create, and _create_default_config    *)
(* when the file is missing or corrupt.  default_data["profiles"] is the   *)
(* DEFAULT_PROFILES object, not a copy of it.                              *)
NewManager ==
    /\ Len(managers) < MaxManagers
    /\ IF disk.state = "valid"
       THEN /\ managers' = Append(managers,
                 [ref |-> "loaded", own |-> disk.profiles,
                  created_default |-> FALSE, initial |-> disk.profiles])
            /\ UNCHANGED disk
       ELSE /\ managers' = Append(managers,
                 [ref |-> "DEFAULT_PROFILES", own |-> DEFAULT_PROFILES,
                  created_default |-> TRUE, initial |-> default_profiles])
            /\ disk' = _write_to_file(default_profiles)
    /\ UNCHANGED <<envvars, kvars, bvars, default_profiles>>

(* The profiles dict of manager i becomes d, and the config is written *)
StoreProfiles(i, d) ==
    /\ IF managers[i].ref = "DEFAULT_PROFILES"
       THEN default_profiles' = d /\ UNCHANGED managers
       ELSE managers' = [managers EXCEPT ![i].own = d] /\ UNCHANGED default_profiles
    /\ disk' = _write_to_file(d)

(* ProfileManager.save_profile(name, settings) *)
SaveProfile(i, name, settings) ==
    /\ i \in 1..Len(managers)
    /\ StoreProfiles(i, DictPut(get_profiles(managers[i]), name, settings))
    /\ UNCHANGED <<envvars, kvars, bvars>>

(* ProfileManager.delete_profile(name), when the name is a profile *)
DeleteProfile(i, name) ==
    /\ i \in 1..Len(managers)
    /\ name \in DOMAIN get_profiles(managers[i])
    /\ StoreProfiles(i, DictDel(get_profiles(managers[i]), name))
    /\ UNCHANGED <<envvars, kvars, bvars>>

(* profiles.json is removed or garbled outside the program *)
LoseFile ==
    /\ disk.state = "valid"
    /\ \E st \in {"missing", "corrupt"} : disk' = [NoFile EXCEPT !.state = st]
    /\ UNCHANGED <<envvars, kvars, bvars, default_profiles, managers>>

ConfigNext ==
    \/ NewManager
    \/ \E i \in 1..MaxManagers, n \in NewNames, u \in UserSettings : SaveProfile(i, n, u)
    \/ \E i \in 1..MaxManagers, n \in ProfileNames : DeleteProfile(i, n)
    \/ LoseFile

ConfigSpec == ConfigInit /\ [][ConfigNext]_vars

(* C13: whenever a ProfileManager creates the default configuration, its   *)
(* profiles are exactly the two built-in ones with their built-in          *)
(* settings, whatever save_profile and delete_profile calls were made      *)
(* before in the same process, on this or another ProfileManager.          *)
C13_Original ==
    \A i \in 1..Len(managers) :
        managers[i].created_default => managers[i].initial = DEFAULT_PROFILES

====
